---------------------------- MODULE Spec2Model ----------------------------
(***************************************************************************)
(* timeburn: the background tracking controller (src/background.js) and    *)
(* the popup's writes to the shared store (src/popup.js).                  *)
(*                                                                         *)
(* Time is in milliseconds.  Every `await` of the source is a point where  *)
(* other callbacks may run: an async function is modelled as a record in   *)
(* flight whose pc names the await it is suspended at, and one action per  *)
(* resumption.  A storage read takes its snapshot in a step of its own     *)
(* (the store serves the request), a storage write is applied when it is   *)
(* issued.                                                                 *)
(***************************************************************************)
EXTENDS Integers, Sequences, FiniteSets, TLC

(***************************************************************************)
(* Bounds of the model.                                                    *)
(***************************************************************************)
MaxSteps == 6
MaxLongSteps == 12
MaxInFlight == 2
MaxEvents == 2

(***************************************************************************)
(* Program constants.                                                      *)
(***************************************************************************)
IntervalMs == 10000
MinuteMs == 60000

\* The clock advances in steps of one timer period.
TimeStep == IntervalMs
MaxTime == MaxSteps * TimeStep
MaxLongTime == MaxLongSteps * TimeStep

TRACKED_SITES ==
  << [hostname |-> "axiom.trade", name |-> "Axiom"],
     [hostname |-> "trade.padre.gg", name |-> "Terminal"],
     [hostname |-> "gmgn.ai", name |-> "Gmgn"] >>

Sites == { TRACKED_SITES[i] : i \in 1..Len(TRACKED_SITES) }
Hosts == { s.hostname : s \in Sites }

\* DEFAULT_SETTINGS.enabledPlatforms
DefaultEnabled ==
  [h \in Hosts |-> h = "axiom.trade"]

DEFAULT_SETTINGS == [enabledPlatforms |-> DefaultEnabled]

\* JavaScript null (a site variable holding no site).
null == [hostname |-> "undefined", name |-> "undefined"]

\* site?.hostname
Hostname(site) == site.hostname

\* A value that may be undefined is a sequence of length 0 or 1.
undefined == << >>
Defined(v) == Len(v) = 1
Val(v) == v[1]

(***************************************************************************)
(* URLs.  A URL is a string; ParsedHostname is what `new URL(url).hostname`*)
(* gives, "TypeError" when the constructor throws.                         *)
(***************************************************************************)
UrlAxiom == "https://axiom.trade/discover"
UrlPadre == "https://trade.padre.gg/trade"
UrlGmgn == "https://gmgn.ai/?chain=sol"
UrlAxiomSub == "https://www.axiom.trade/"
UrlOther == "https://example.com/axiom.trade"
UrlMalformed == "axiom.trade"
UrlEmpty == ""

AllUrls ==
  {UrlAxiom, UrlPadre, UrlGmgn, UrlAxiomSub, UrlOther, UrlMalformed, UrlEmpty}

ParsedHostname(url) ==
  CASE url = UrlAxiom -> "axiom.trade"
    [] url = UrlPadre -> "trade.padre.gg"
    [] url = UrlGmgn -> "gmgn.ai"
    [] url = UrlAxiomSub -> "www.axiom.trade"
    [] url = UrlOther -> "example.com"
    [] OTHER -> "TypeError"

\* enabledPlatforms[hostname], truthy: a missing key reads undefined.
Truthy(platforms, hostname) ==
  hostname \in DOMAIN platforms /\ platforms[hostname]

\* getTrackedSite without the enabledPlatforms test of line 59.
getTrackedSite_IgnoresEnabled(url, platforms) ==
  IF url = UrlEmpty THEN null
  ELSE IF ParsedHostname(url) = "TypeError" THEN null
  ELSE LET found == { s \in Sites : ParsedHostname(url) = s.hostname }
       IN IF found # {} THEN CHOOSE s \in found : TRUE ELSE null

\* getTrackedSite(url) (lines 50-67), reading the global enabledPlatforms.
getTrackedSite(url, platforms) ==
  IF url = UrlEmpty THEN null
  ELSE IF ParsedHostname(url) = "TypeError" THEN null
  ELSE LET found == { s \in Sites : ParsedHostname(url) = s.hostname }
       IN IF found # {} /\ Truthy(platforms, (CHOOSE s \in found : TRUE).hostname)
          THEN CHOOSE s \in found : TRUE
          ELSE null


(***************************************************************************)
(* State.                                                                  *)
(***************************************************************************)
VARIABLES
  now,              \* Date.now()
  currentSite,      \* background.js:19
  lastUpdateTime,   \* background.js:20
  intervalId,       \* background.js:21, 0 is null
  enabledPlatforms, \* background.js:22
  activeTabId,      \* background.js:18, 0 is null
  timers,           \* the host's armed interval timers: [id, due]
  flushes,          \* updateTime() invocations suspended at an await
  inits,            \* initializeStorage() invocations suspended at an await
  queries,          \* chrome.tabs.query calls whose callback has not run
  messageQuery,     \* the message listener's pending tabs.query callback:
                    \* the enabledPlatforms of the message it closes over
  messages,         \* updateEnabledPlatforms messages not yet delivered
  lifecycle,        \* onInstalled / onStartup events not yet fired
  timeDataStore,    \* chrome.storage.local "timeData" (may be undefined)
  settingsStore,    \* chrome.storage.local "settings" (may be undefined)
  tabUrl,           \* URL of the active tab of the current window
  focused,          \* whether a browser window has focus
  activations,      \* tabs.onActivated listener invocations suspended at an
                    \* await
  windowState,      \* state of the window of the active tab
  trackedMs,        \* history: ms that passed while currentSite was set
  addedMinutes,     \* history: minutes added to the store by flushes
  lastOp,           \* history: what the step just taken did to the controller
  events            \* history: user and lifecycle events so far

vars ==
  << now, currentSite, lastUpdateTime, intervalId, enabledPlatforms,
     activeTabId, timers, flushes, inits, queries, messageQuery, messages,
     lifecycle, timeDataStore, settingsStore, tabUrl, focused, activations, windowState, trackedMs,
     addedMinutes, lastOp, events >>

controllerVars == << currentSite, lastUpdateTime, intervalId, timers, flushes >>

\* The id of the one tab the model follows (the active tab of the window).
TheTab == 1

\* The URLs the active tab visits.
NavUrls == {UrlAxiom, UrlPadre, UrlOther}

\* timeData written by initializeStorage (lines 30-36) and by the popup's
\* reset (popup.js lines 147-151): every tracked site at zero.
ZeroTimeData ==
  [h \in Hosts |->
     [name |-> (CHOOSE s \in Sites : s.hostname = h).name, totalMinutes |-> 0]]

EmptyObject == [h \in {} |-> 0]

\* totalMinutes of hostname in a timeData value that may be undefined.
Total(td, hostname) ==
  IF Defined(td) /\ hostname \in DOMAIN Val(td)
  THEN Val(td)[hostname].totalMinutes
  ELSE 0

RemoveAt(seq, i) ==
  [j \in 1..(Len(seq) - 1) |-> IF j < i THEN seq[j] ELSE seq[j + 1]]

(***************************************************************************)
(* The controller's functions, on a record of the variables they touch.    *)
(***************************************************************************)
Ctl ==
  [currentSite |-> currentSite, lastUpdateTime |-> lastUpdateTime,
   intervalId |-> intervalId, timers |-> timers, flushes |-> flushes]

Apply(c) ==
  /\ currentSite' = c.currentSite
  /\ lastUpdateTime' = c.lastUpdateTime
  /\ intervalId' = c.intervalId
  /\ timers' = c.timers
  /\ flushes' = c.flushes

\* updateTime() up to its first await (lines 79-85).  `site` and `kind`
\* of the suspended invocation are history: the site it was called for and
\* the caller ("tick" the timer, "stop" or "switch" stopTracking); `wrote`
\* is the hostname its write added the minutes to.
\* updateTime without the test of line 83.
updateTime_AlwaysFlushes(c, t, kind) ==
  IF c.currentSite = null THEN c
  ELSE [c EXCEPT !.flushes =
          Append(@, [pc |-> "get", now |-> t,
                     elapsedMinutes |-> (t - c.lastUpdateTime) \div MinuteMs,
                     data |-> undefined, site |-> c.currentSite,
                     kind |-> kind, wrote |-> "none"])]

\* updateTime rounding the elapsed time up to whole minutes.
updateTime_RoundsUp(c, t, kind) ==
  IF c.currentSite = null THEN c
  ELSE LET elapsedMinutes ==
             (t - c.lastUpdateTime + MinuteMs - 1) \div MinuteMs
       IN IF elapsedMinutes >= 1
          THEN [c EXCEPT !.flushes =
                  Append(@, [pc |-> "get", now |-> t,
                             elapsedMinutes |-> elapsedMinutes,
                             data |-> undefined, site |-> c.currentSite,
                             kind |-> kind, wrote |-> "none"])]
          ELSE c

updateTime(c, t, kind) ==
  IF c.currentSite = null THEN c
  ELSE LET elapsedMinutes == (t - c.lastUpdateTime) \div MinuteMs
       IN IF elapsedMinutes >= 1
          THEN [c EXCEPT !.flushes =
                  Append(@, [pc |-> "get", now |-> t,
                             elapsedMinutes |-> elapsedMinutes,
                             data |-> undefined, site |-> c.currentSite,
                             kind |-> kind, wrote |-> "none"])]
          ELSE c

\* A clearInterval that leaves the timer armed.
clearInterval_KeepsTimer(c, id) == c

clearInterval(c, id) ==
  [c EXCEPT !.timers = { tm \in @ : tm.id # id }]

setInterval(c, t) ==
  LET id == CHOOSE i \in 1..(Cardinality(c.timers) + 1) :
              \A tm \in c.timers : tm.id # i
  IN [c EXCEPT !.timers = @ \cup {[id |-> id, due |-> t + IntervalMs]},
               !.intervalId = id]

\* stopTracking without lines 117-120.
stopTrackingAs_LeavesTimer(c, t, kind) ==
  LET c2 == IF c.currentSite # null THEN updateTime(c, t, kind) ELSE c
  IN [c2 EXCEPT !.currentSite = null]

\* stopTracking() (lines 116-125); `kind` is history, for the final
\* updateTime() call: "stop" a listener's call, "switch" startTracking's.
stopTrackingAs(c, t, kind) ==
  LET c1 == IF c.intervalId # 0
            THEN [clearInterval(c, c.intervalId) EXCEPT !.intervalId = 0]
            ELSE c
      c2 == IF c1.currentSite # null THEN updateTime(c1, t, kind) ELSE c1
  IN [c2 EXCEPT !.currentSite = null]

stopTracking(c, t) == stopTrackingAs(c, t, "stop")

\* startTracking without the early return of line 103.
startTracking_NoEarlyReturn(c, site, t) ==
  LET c1 == stopTrackingAs(c, t, IF site = null THEN "stop" ELSE "switch")
      c2 == [c1 EXCEPT !.currentSite = site, !.lastUpdateTime = t]
  IN IF site # null THEN setInterval(c2, t) ELSE c2

\* startTracking(site) (lines 102-113)
startTracking(c, site, t) ==
  IF Hostname(c.currentSite) = Hostname(site) THEN c
  ELSE LET c1 == stopTrackingAs(c, t, IF site = null THEN "stop" ELSE "switch")
           c2 == [c1 EXCEPT !.currentSite = site, !.lastUpdateTime = t]
       IN IF site # null THEN setInterval(c2, t) ELSE c2

\* What a startTracking(site) call did, for lastOp.
StartOp(c, site) ==
  IF Hostname(c.currentSite) = Hostname(site) THEN "start-same"
  ELSE IF c.currentSite = null THEN "start-fresh"
  ELSE IF site = null THEN "start-null"
  ELSE "start-switch"


\* At most MaxInFlight updateTime() invocations are suspended at a time.
Fits(c) == Len(c.flushes) <= MaxInFlight

(***************************************************************************)
(* Initial state: the module has been evaluated (lines 18-22, 212, 215):   *)
(* initializeStorage() is suspended at its storage read and the initial    *)
(* tabs.query is pending.  The store holds what an earlier run left.       *)
(***************************************************************************)
BothEnabled ==
  [h \in Hosts |-> h \in {"axiom.trade", "trade.padre.gg"}]

NewInit == [pc |-> "get", timeData |-> undefined, settings |-> undefined]

\* The state after module evaluation, over a store holding timeData and
\* settings (either may be undefined) and the active tab at url.
InitWith(timeData, settings, url) ==
  /\ now = 0
  /\ currentSite = null
  /\ lastUpdateTime = 0
  /\ intervalId = 0
  /\ enabledPlatforms = DefaultEnabled
  /\ activeTabId = 0
  /\ timers = {}
  /\ flushes = << >>
  /\ inits = << NewInit >>
  /\ queries = {"startup"}
  /\ messageQuery = undefined
  /\ messages = << >>
  /\ lifecycle = {"onInstalled", "onStartup"}
  /\ timeDataStore = timeData
  /\ settingsStore = settings
  /\ tabUrl = url
  /\ focused = TRUE
  /\ activations = << >>
  /\ windowState = "normal"
  /\ trackedMs = 0
  /\ addedMinutes = 0
  /\ lastOp = "none"
  /\ events = 0

\* A first run (empty store) or a later one (store written by earlier runs).
Init ==
  \E timeData \in {undefined, << ZeroTimeData >>},
     settings \in {undefined, << DEFAULT_SETTINGS >>,
                   << [enabledPlatforms |-> BothEnabled] >>},
     url \in {UrlAxiom, UrlOther} :
    InitWith(timeData, settings, url)

\* The first run after installation: nothing is stored yet.
InitFresh == InitWith(undefined, undefined, UrlAxiom)

\* A later run with the default settings stored: only axiom.trade enabled.
InitDefaultSettings ==
  InitWith(<< ZeroTimeData >>, << DEFAULT_SETTINGS >>, UrlAxiom)

\* The enabledPlatforms maps getTrackedSite is tried on: any flags for any
\* of the tracked hostnames, the others missing.
PlatformMaps ==
  UNION { [D -> BOOLEAN] : D \in SUBSET Hosts }

\* Start-up over any stored map, with the active tab at any URL.
InitResolve ==
  \E platforms \in PlatformMaps, url \in AllUrls :
    InitWith(<< ZeroTimeData >>, << [enabledPlatforms |-> platforms] >>, url)

\* A later run of an installed extension with two platforms enabled.
InitInstalled ==
  \E url \in {UrlAxiom, UrlOther} :
    InitWith(<< ZeroTimeData >>, << [enabledPlatforms |-> BothEnabled] >>, url)

(***************************************************************************)
(* The clock and the interval timer.                                       *)
(***************************************************************************)
\* Time passes, up to limit; an armed timer fires when it is due, not later.
AdvanceTo(limit) ==
  /\ now < limit
  /\ \A tm \in timers : now < tm.due
  /\ now' = now + TimeStep
  /\ trackedMs' = trackedMs + (IF currentSite # null THEN TimeStep ELSE 0)
  /\ lastOp' = "none"
  /\ UNCHANGED << currentSite, lastUpdateTime, intervalId, enabledPlatforms,
                  activeTabId, timers, flushes, inits, queries, messageQuery, messages,
                  lifecycle, timeDataStore, settingsStore, tabUrl, focused, activations, windowState,
                  addedMinutes, events >>

Advance == AdvanceTo(MaxTime)

\* Time passes although a timer is due: the browser runs the callback of
\* setInterval (line 111) late, by at most one period here.
AdvanceLate ==
  /\ now < MaxLongTime
  /\ flushes = << >>
  /\ \E tm \in timers : now >= tm.due
  /\ \A tm \in timers : now < tm.due + IntervalMs
  /\ now' = now + TimeStep
  /\ trackedMs' = trackedMs + (IF currentSite # null THEN TimeStep ELSE 0)
  /\ lastOp' = "none"
  /\ UNCHANGED << currentSite, lastUpdateTime, intervalId, enabledPlatforms,
                  activeTabId, timers, flushes, inits, queries, messageQuery, messages,
                  lifecycle, timeDataStore, settingsStore, tabUrl, focused, activations, windowState,
                  addedMinutes, events >>

\* The same over a longer run, for the specifications of a single session.
AdvanceLong == AdvanceTo(MaxLongTime)

\* The interval callback: setInterval(updateTime, 10000) (line 111).
Tick ==
  \E tm \in timers :
    /\ now >= tm.due
    /\ LET c == updateTime(
                  [Ctl EXCEPT !.timers =
                     (@ \ {tm}) \cup {[tm EXCEPT !.due = now + IntervalMs]}],
                  now, "tick")
       IN Fits(c) /\ Apply(c)
    /\ lastOp' = "none"
    /\ UNCHANGED << now, enabledPlatforms, activeTabId, inits, queries, messageQuery,
                    messages, lifecycle, timeDataStore, settingsStore, tabUrl,
                    focused, activations, windowState, trackedMs, addedMinutes, events >>

(***************************************************************************)
(* updateTime() after its awaits (lines 85-98).                            *)
(***************************************************************************)
\* The store serves chrome.storage.local.get(["timeData"]) (line 85).
FlushRead ==
  \E i \in 1..Len(flushes) :
    /\ flushes[i].pc = "get"
    /\ flushes' = [flushes EXCEPT ![i].pc = "got", ![i].data = timeDataStore]
    /\ lastOp' = "none"
    /\ UNCHANGED << now, currentSite, lastUpdateTime, intervalId,
                    enabledPlatforms, activeTabId, timers, inits, queries, messageQuery,
                    messages, lifecycle, timeDataStore, settingsStore, tabUrl,
                    focused, activations, windowState, trackedMs, addedMinutes, events >>

\* timeData after lines 86-95, for the site that is current at that moment.
FlushedTimeData(data, site, elapsedMinutes) ==
  LET timeData == IF Defined(data) THEN Val(data) ELSE EmptyObject
      h == site.hostname
      withEntry ==
        IF h \in DOMAIN timeData THEN timeData
        ELSE [k \in DOMAIN timeData \cup {h} |->
                IF k = h THEN [name |-> site.name, totalMinutes |-> 0]
                ELSE timeData[k]]
  IN [withEntry EXCEPT ![h].totalMinutes = @ + elapsedMinutes]

\* Resumption after the read (lines 86-96): currentSite is read again here;
\* when it is null, line 88 throws and the invocation ends rejected.
FlushWrite ==
  \E i \in 1..Len(flushes) :
    /\ flushes[i].pc = "got"
    /\ IF currentSite = null
       THEN /\ flushes' = [flushes EXCEPT ![i].pc = "threw"]
            /\ UNCHANGED << timeDataStore, addedMinutes >>
       ELSE /\ timeDataStore' =
                 << FlushedTimeData(flushes[i].data, currentSite,
                                    flushes[i].elapsedMinutes) >>
            /\ flushes' = [flushes EXCEPT ![i].pc = "set",
                                          ![i].wrote = currentSite.hostname]
            /\ addedMinutes' = addedMinutes + flushes[i].elapsedMinutes
    /\ lastOp' = "none"
    /\ UNCHANGED << now, currentSite, lastUpdateTime, intervalId,
                    enabledPlatforms, activeTabId, timers, inits, queries, messageQuery,
                    messages, lifecycle, settingsStore, tabUrl, focused, activations, windowState,
                    trackedMs, events >>

\* Resumption after the write (line 97).
FlushDone ==
  \E i \in 1..Len(flushes) :
    /\ flushes[i].pc = "set"
    /\ lastUpdateTime' = flushes[i].now
    /\ flushes' = RemoveAt(flushes, i)
    /\ lastOp' = "none"
    /\ UNCHANGED << now, currentSite, intervalId, enabledPlatforms,
                    activeTabId, timers, inits, queries, messageQuery, messages, lifecycle,
                    timeDataStore, settingsStore, tabUrl, focused, activations, windowState, trackedMs,
                    addedMinutes, events >>

\* The rejected promise of an invocation that threw is dropped: nothing
\* awaits or catches it (lines 111, 122).
FlushRejected ==
  \E i \in 1..Len(flushes) :
    /\ flushes[i].pc \in {"threw", "failed"}
    /\ flushes' = RemoveAt(flushes, i)
    /\ lastOp' = "none"
    /\ UNCHANGED << now, currentSite, lastUpdateTime, intervalId,
                    enabledPlatforms, activeTabId, timers, inits, queries, messageQuery,
                    messages, lifecycle, timeDataStore, settingsStore, tabUrl,
                    focused, activations, windowState, trackedMs, addedMinutes, events >>


\* A failed read that still runs line 97.
FlushReadFails_SetsLastUpdateTime ==
  \E i \in 1..Len(flushes) :
    /\ flushes[i].pc = "get"
    /\ flushes' = [flushes EXCEPT ![i].pc = "failed"]
    /\ lastUpdateTime' = flushes[i].now
    /\ lastOp' = "none"
    /\ UNCHANGED << now, currentSite, intervalId,
                    enabledPlatforms, activeTabId, timers, inits, queries,
                    messageQuery, messages, lifecycle, timeDataStore,
                    settingsStore, tabUrl, focused, activations, windowState, trackedMs, addedMinutes,
                    events >>

\* chrome.storage.local.get rejects (line 85): the await throws and the
\* invocation ends rejected.
FlushReadFails ==
  \E i \in 1..Len(flushes) :
    /\ flushes[i].pc = "get"
    /\ flushes' = [flushes EXCEPT ![i].pc = "failed"]
    /\ lastOp' = "none"
    /\ UNCHANGED << now, currentSite, lastUpdateTime, intervalId,
                    enabledPlatforms, activeTabId, timers, inits, queries,
                    messageQuery, messages, lifecycle, timeDataStore,
                    settingsStore, tabUrl, focused, activations, windowState, trackedMs, addedMinutes,
                    events >>

\* A flush whose storage call rejected: line 97 is not reached.
FailedFlush(f) == [f EXCEPT !.pc = "failed"]

\* chrome.storage.local.set rejects (line 96) and stores nothing.
FlushWriteFails ==
  \E i \in 1..Len(flushes) :
    /\ flushes[i].pc = "got"
    /\ currentSite # null
    /\ flushes' = [flushes EXCEPT ![i] = FailedFlush(@)]
    /\ lastOp' = "none"
    /\ UNCHANGED << now, currentSite, lastUpdateTime, intervalId,
                    enabledPlatforms, activeTabId, timers, inits, queries,
                    messageQuery, messages, lifecycle, timeDataStore,
                    settingsStore, tabUrl, focused, activations, windowState, trackedMs, addedMinutes,
                    events >>

(***************************************************************************)
(* Browser events and their listeners.                                     *)
(***************************************************************************)
\* The active tab navigates; tabs.onUpdated listener (lines 144-149).
OnUpdatedTo(url) ==
    /\ url # tabUrl
    /\ tabUrl' = url
    /\ IF activeTabId = TheTab
       THEN LET site == getTrackedSite(url, enabledPlatforms)
                c == startTracking(Ctl, site, now)
            IN Fits(c) /\ Apply(c) /\ lastOp' = StartOp(Ctl, site)
       ELSE UNCHANGED controllerVars /\ lastOp' = "none"
    /\ events < MaxEvents
    /\ events' = events + 1
    /\ UNCHANGED << now, enabledPlatforms, activeTabId, inits, queries, messageQuery,
                    messages, lifecycle, timeDataStore, settingsStore, focused, activations, windowState,
                    trackedMs, addedMinutes >>

OnUpdated == \E url \in NavUrls : OnUpdatedTo(url)

\* windows.onFocusChanged with WINDOW_ID_NONE (lines 153-155).
OnFocusLost ==
  /\ focused
  /\ focused' = FALSE
  /\ LET c == stopTracking(Ctl, now)
     IN Fits(c) /\ Apply(c)
  /\ lastOp' = IF currentSite = null THEN "stop-idle" ELSE "stop"
  /\ events < MaxEvents
  /\ events' = events + 1
  /\ UNCHANGED << now, enabledPlatforms, activeTabId, inits, queries, messageQuery, messages,
                  lifecycle, timeDataStore, settingsStore, tabUrl, trackedMs,
                  addedMinutes, activations, windowState >>

\* windows.onFocusChanged with a window id, up to its await (lines 156-158).
OnFocusGained ==
  /\ ~focused
  /\ windowState = "normal"
  /\ focused' = TRUE
  /\ queries' = queries \cup {"focus"}
  /\ lastOp' = "none"
  /\ events < MaxEvents
  /\ events' = events + 1
  /\ UNCHANGED << now, currentSite, lastUpdateTime, intervalId,
                  enabledPlatforms, activeTabId, timers, flushes, inits,
                  messages, messageQuery, lifecycle, timeDataStore, settingsStore,
                  tabUrl, trackedMs, addedMinutes, activations, windowState >>

\* The window is minimized; when it had the focus, no window has it now and
\* windows.onFocusChanged fires with WINDOW_ID_NONE (lines 152-155).
OnMinimized ==
  /\ windowState = "normal"
  /\ windowState' = "minimized"
  /\ focused' = FALSE
  /\ IF focused
     THEN /\ LET c == stopTracking(Ctl, now)
             IN Fits(c) /\ Apply(c)
          /\ lastOp' = IF currentSite = null THEN "stop-idle" ELSE "stop"
     ELSE UNCHANGED controllerVars /\ lastOp' = "none"
  /\ events < MaxEvents
  /\ events' = events + 1
  /\ UNCHANGED << now, enabledPlatforms, activeTabId, inits, queries,
                  messageQuery, messages, lifecycle, timeDataStore,
                  settingsStore, tabUrl, trackedMs, addedMinutes, activations >>

\* The window is restored and takes the focus: windows.onFocusChanged fires
\* with its id (lines 156-158).
OnRestored ==
  /\ windowState = "minimized"
  /\ windowState' = "normal"
  /\ focused' = TRUE
  /\ queries' = queries \cup {"focus"}
  /\ lastOp' = "none"
  /\ events < MaxEvents
  /\ events' = events + 1
  /\ UNCHANGED << now, currentSite, lastUpdateTime, intervalId,
                  enabledPlatforms, activeTabId, timers, flushes, inits,
                  messages, messageQuery, lifecycle, timeDataStore,
                  settingsStore, tabUrl, trackedMs, addedMinutes, activations >>

\* An invocation of a tabs.onActivated listener (1: lines 128-141, 2: lines
\* 168-178) suspended at chrome.tabs.get.  `url` is the URL of its tab and
\* `active` whether that tab is still the active one.
NewActivation(listener, url) ==
  [listener |-> listener, pc |-> "tabsGet", url |-> url, active |-> TRUE]

\* The invocations in flight when another tab becomes the active one: their
\* tab keeps the URL it has.
Deactivated(acts) ==
  [i \in 1..Len(acts) |->
     [acts[i] EXCEPT !.active = FALSE,
                     !.url = IF acts[i].active /\ acts[i].pc = "tabsGet"
                             THEN tabUrl ELSE @]]

\* Another tab, at url, becomes the active tab: both tabs.onActivated
\* listeners run up to their first await (lines 129-130, 169).
OnActivatedTo(url) ==
  /\ tabUrl' = url
  /\ activeTabId' = TheTab
  /\ activations' = Deactivated(activations)
                      \o << NewActivation(1, url), NewActivation(2, url) >>
  /\ lastOp' = "none"
  /\ events < MaxEvents
  /\ events' = events + 1
  /\ UNCHANGED << now, currentSite, lastUpdateTime, intervalId,
                  enabledPlatforms, timers, flushes, inits, queries,
                  messageQuery, messages, lifecycle, timeDataStore,
                  settingsStore, focused, windowState, trackedMs,
                  addedMinutes >>

OnActivated == \E url \in NavUrls : OnActivatedTo(url)

\* chrome.tabs.get answers with the listener's tab (lines 130, 169).
ActivationTabGot ==
  \E i \in 1..Len(activations) :
    /\ activations[i].pc = "tabsGet"
    /\ activations' =
         [activations EXCEPT ![i].pc = "windowsGet",
                             ![i].url = IF activations[i].active
                                        THEN tabUrl ELSE @]
    /\ lastOp' = "none"
    /\ UNCHANGED << now, currentSite, lastUpdateTime, intervalId,
                    enabledPlatforms, activeTabId, timers, flushes, inits,
                    queries, messageQuery, messages, lifecycle, timeDataStore,
                    settingsStore, tabUrl, focused, windowState, trackedMs,
                    addedMinutes, events >>

\* The listeners without the test of window.state (lines 134, 172).
ActivationWindowGot_IgnoresMinimized ==
  \E i \in 1..Len(activations) :
    /\ activations[i].pc = "windowsGet"
    /\ activations' = RemoveAt(activations, i)
    /\ LET site == getTrackedSite(activations[i].url, enabledPlatforms)
           c == startTracking(Ctl, site, now)
       IN Fits(c) /\ Apply(c) /\ lastOp' = StartOp(Ctl, site)
    /\ UNCHANGED << now, enabledPlatforms, activeTabId, inits, queries,
                    messageQuery, messages, lifecycle, timeDataStore,
                    settingsStore, tabUrl, focused, windowState, trackedMs,
                    addedMinutes, events >>

\* chrome.windows.get answers and the listener finishes (lines 133-140,
\* 170-177).
ActivationWindowGot ==
  \E i \in 1..Len(activations) :
    /\ activations[i].pc = "windowsGet"
    /\ activations' = RemoveAt(activations, i)
    /\ IF windowState = "minimized"
       THEN /\ LET c == stopTracking(Ctl, now)
               IN Fits(c) /\ Apply(c)
            /\ lastOp' = "activated-minimized"
       ELSE LET site == getTrackedSite(activations[i].url, enabledPlatforms)
                c == startTracking(Ctl, site, now)
            IN Fits(c) /\ Apply(c) /\ lastOp' = StartOp(Ctl, site)
    /\ UNCHANGED << now, enabledPlatforms, activeTabId, inits, queries,
                    messageQuery, messages, lifecycle, timeDataStore,
                    settingsStore, tabUrl, focused, windowState, trackedMs,
                    addedMinutes, events >>

\* A tabs.query answers with the active tab: the rest of the focus listener
\* (lines 159-163) and the start-up callback (lines 215-221).
TabQueryDone ==
  \E q \in queries \cap {"startup", "focus"} :
    /\ queries' = queries \ {q}
    /\ activeTabId' = TheTab
    /\ LET site == getTrackedSite(tabUrl, enabledPlatforms)
           c == startTracking(Ctl, site, now)
       IN Fits(c) /\ Apply(c) /\ lastOp' = StartOp(Ctl, site)
    /\ UNCHANGED << now, enabledPlatforms, inits, messages, messageQuery,
                    lifecycle,
                    timeDataStore, settingsStore, tabUrl, focused, activations, windowState, trackedMs,
                    addedMinutes, events >>

\* runtime.onMessage listener, up to its tabs.query (lines 181-186).
OnMessage ==
  /\ messages # << >>
  /\ ~Defined(messageQuery)
  /\ enabledPlatforms' = Head(messages)
  /\ messages' = Tail(messages)
  /\ messageQuery' = << Head(messages) >>
  /\ lastOp' = "none"
  /\ UNCHANGED << now, currentSite, lastUpdateTime, intervalId, activeTabId,
                  timers, flushes, inits, queries, lifecycle, timeDataStore,
                  settingsStore, tabUrl, focused, activations, windowState, trackedMs, addedMinutes,
                  events >>

\* The controller after the message listener's query callback (lines 187-196).
MessageRecheck(c, site, t) ==
  IF site = null THEN stopTracking(c, t)
  ELSE IF Hostname(c.currentSite) # site.hostname THEN startTracking(c, site, t)
  ELSE c

\* The message listener's tabs.query callback (lines 186-197).  lastOp is
\* "message-off" when the foreground tab is on the site being tracked and
\* the message this callback closes over has that platform disabled.
MessageQueryDone ==
  /\ Defined(messageQuery)
  /\ messageQuery' = undefined
  /\ LET site == getTrackedSite(tabUrl, enabledPlatforms)
         c == MessageRecheck(Ctl, site, now)
     IN /\ Fits(c) /\ Apply(c)
        /\ lastOp' = IF /\ currentSite # null
                        /\ ParsedHostname(tabUrl) = currentSite.hostname
                        /\ ~Truthy(Val(messageQuery), currentSite.hostname)
                     THEN "message-off" ELSE "message"
  /\ UNCHANGED << now, enabledPlatforms, activeTabId, inits, queries, messages,
                  lifecycle, timeDataStore, settingsStore, tabUrl, focused, activations, windowState,
                  trackedMs, addedMinutes, events >>

(***************************************************************************)
(* The popup (src/popup.js).                                               *)
(***************************************************************************)
\* The platforms the user toggles in the popup.
ToggledHosts == {"axiom.trade", "trade.padre.gg"}

\* A platform checkbox changes (popup.js lines 240-252): loadSettings,
\* set the flag, saveSettings, send the message.
PopupToggle ==
  \E h \in ToggledHosts :
    /\ messages = << >>
    /\ LET settings == IF Defined(settingsStore) THEN Val(settingsStore)
                       ELSE DEFAULT_SETTINGS
           platforms == [settings.enabledPlatforms EXCEPT ![h] = ~@]
       IN /\ settingsStore' = << [settings EXCEPT !.enabledPlatforms = platforms] >>
          /\ messages' = Append(messages, platforms)
    /\ lastOp' = "none"
    /\ events < MaxEvents
    /\ events' = events + 1
    /\ UNCHANGED << now, currentSite, lastUpdateTime, intervalId,
                    enabledPlatforms, activeTabId, timers, flushes, inits,
                    queries, messageQuery, lifecycle, timeDataStore, tabUrl,
                    focused, activations, windowState,
                    trackedMs, addedMinutes >>

\* The confirmed reset (popup.js lines 140-153).
ResetAllData ==
  /\ timeDataStore' = << ZeroTimeData >>
  /\ lastOp' = "reset"
  /\ events < MaxEvents
  /\ events' = events + 1
  /\ UNCHANGED << now, currentSite, lastUpdateTime, intervalId,
                  enabledPlatforms, activeTabId, timers, flushes, inits,
                  queries, messageQuery, messages, lifecycle, settingsStore,
                  tabUrl, focused, activations, windowState,
                  trackedMs, addedMinutes >>

(***************************************************************************)
(* initializeStorage() (lines 25-48).                                      *)
(***************************************************************************)
\* runtime.onInstalled / runtime.onStartup (lines 202-209).
OnLifecycle ==
  \E e \in lifecycle :
    /\ lifecycle' = lifecycle \ {e}
    /\ inits' = Append(inits, NewInit)
    /\ lastOp' = "none"
    /\ events < MaxEvents
    /\ events' = events + 1
    /\ UNCHANGED << now, currentSite, lastUpdateTime, intervalId,
                    enabledPlatforms, activeTabId, timers, flushes, queries, messageQuery,
                    messages, timeDataStore, settingsStore, tabUrl, focused, activations, windowState,
                    trackedMs, addedMinutes >>

\* The store serves get(["timeData", "settings"]) (line 26).
InitRead ==
  \E i \in 1..Len(inits) :
    /\ inits[i].pc = "get"
    /\ inits' = [inits EXCEPT ![i] = [pc |-> "got", timeData |-> timeDataStore,
                                      settings |-> settingsStore]]
    /\ lastOp' = "none"
    /\ UNCHANGED << now, currentSite, lastUpdateTime, intervalId,
                    enabledPlatforms, activeTabId, timers, flushes, queries, messageQuery,
                    messages, lifecycle, timeDataStore, settingsStore, tabUrl,
                    focused, activations, windowState, trackedMs, addedMinutes, events >>

\* Lines 41-47, from the data read at line 26: the settings written (or
\* none) and the map assigned to enabledPlatforms once the function ends.
InitSettingsWrite(data) ==
  IF ~Defined(data.settings) THEN << DEFAULT_SETTINGS >> ELSE undefined

InitEnabledPlatforms(data) ==
  IF ~Defined(data.settings) THEN DEFAULT_SETTINGS.enabledPlatforms
  ELSE Val(data.settings).enabledPlatforms

\* Resumption after the read (lines 29-37): timeData is written when the
\* read found none; otherwise the function goes on to line 41.
InitAfterGet ==
  \E i \in 1..Len(inits) :
    /\ inits[i].pc = "got"
    /\ IF ~Defined(inits[i].timeData)
       THEN /\ timeDataStore' = << ZeroTimeData >>
            /\ inits' = [inits EXCEPT ![i].pc = "setTimeData"]
            /\ UNCHANGED << settingsStore, enabledPlatforms >>
       ELSE /\ UNCHANGED timeDataStore
            /\ IF ~Defined(inits[i].settings)
               THEN /\ settingsStore' = InitSettingsWrite(inits[i])
                    /\ inits' = [inits EXCEPT ![i].pc = "setSettings"]
                    /\ UNCHANGED enabledPlatforms
               ELSE /\ enabledPlatforms' = InitEnabledPlatforms(inits[i])
                    /\ inits' = RemoveAt(inits, i)
                    /\ UNCHANGED settingsStore
    /\ lastOp' = "none"
    /\ UNCHANGED << now, currentSite, lastUpdateTime, intervalId, activeTabId,
                    timers, flushes, queries, messageQuery, messages, lifecycle, tabUrl,
                    focused, activations, windowState, trackedMs, addedMinutes, events >>

\* Resumption after the timeData write (lines 41-47).
InitAfterTimeDataSet ==
  \E i \in 1..Len(inits) :
    /\ inits[i].pc = "setTimeData"
    /\ IF ~Defined(inits[i].settings)
       THEN /\ settingsStore' = InitSettingsWrite(inits[i])
            /\ inits' = [inits EXCEPT ![i].pc = "setSettings"]
            /\ UNCHANGED enabledPlatforms
       ELSE /\ enabledPlatforms' = InitEnabledPlatforms(inits[i])
            /\ inits' = RemoveAt(inits, i)
            /\ UNCHANGED settingsStore
    /\ lastOp' = "none"
    /\ UNCHANGED << now, currentSite, lastUpdateTime, intervalId, activeTabId,
                    timers, flushes, queries, messageQuery, messages, lifecycle,
                    timeDataStore, tabUrl, focused, activations, windowState, trackedMs, addedMinutes, events >>

\* Resumption after the settings write (line 43).
InitAfterSettingsSet ==
  \E i \in 1..Len(inits) :
    /\ inits[i].pc = "setSettings"
    /\ enabledPlatforms' = InitEnabledPlatforms(inits[i])
    /\ inits' = RemoveAt(inits, i)
    /\ lastOp' = "none"
    /\ UNCHANGED << now, currentSite, lastUpdateTime, intervalId, activeTabId,
                    timers, flushes, queries, messageQuery, messages, lifecycle,
                    timeDataStore, settingsStore, tabUrl, focused, activations, windowState, trackedMs,
                    addedMinutes, events >>

(***************************************************************************)
(* The specification.                                                      *)
(***************************************************************************)
\* updateTime() after its awaits.
Flush ==
  \/ FlushRead
  \/ FlushWrite
  \/ FlushDone
  \/ FlushRejected

\* The start-up work of the module: the first initializeStorage() over a
\* store that holds both keys, and the initial tabs.query.
Startup ==
  \/ InitRead
  \/ InitAfterGet
  \/ TabQueryDone

\* Tab and window events.
Browsing ==
  \/ OnUpdated
  \/ OnFocusLost
  \/ OnFocusGained

NextTracking ==
  \/ Advance
  \/ Tick
  \/ Flush
  \/ Startup
  \/ Browsing

\* The tracking controller of an installed extension under tab and focus
\* events, with every interleaving of its suspended updateTime() calls.
SpecTracking == InitInstalled /\ [][NextTracking]_vars

\* initializeStorage() over a store that lacks a key, and its later runs.
Installing ==
  \/ OnLifecycle
  \/ InitAfterTimeDataSet
  \/ InitAfterSettingsSet

NextStore ==
  \/ Advance
  \/ Tick
  \/ Flush
  \/ Startup
  \/ Installing
  \/ OnFocusLost
  \/ ResetAllData

\* The writers of the store: flushes (periodic and final), initializeStorage
\* runs and the popup's reset, from a first run on an empty store.
SpecStore == InitFresh /\ [][NextStore]_vars

NextSettings ==
  \/ Advance
  \/ Tick
  \/ Flush
  \/ Startup
  \/ PopupToggle
  \/ OnMessage
  \/ MessageQueryDone

\* The popup toggling platforms while the controller tracks the active tab.
SpecSettings == InitInstalled /\ [][NextSettings]_vars

NextFlush ==
  \/ AdvanceLong
  \/ Tick
  \/ Flush
  \/ FlushReadFails
  \/ FlushWriteFails
  \/ TabQueryDone

\* One session on one site, with storage calls that may fail, from a first
\* run or a later one, while the read of initializeStorage() is outstanding:
\* on a first run the flushes find no timeData in the store.
SpecFlush == (InitFresh \/ InitInstalled) /\ [][NextFlush]_vars

\* Time passes only while no updateTime() is suspended: the store answers
\* within one timer period.
AdvanceQuick == flushes = << >> /\ AdvanceTo(MaxLongTime)

\* The active tab goes to the disabled tracked site.
SwitchToDisabled == OnUpdatedTo(UrlPadre)

NextScenario ==
  \/ AdvanceQuick
  \/ Tick
  \/ Flush
  \/ Startup
  \/ SwitchToDisabled

\* The scenario of one visit to the only enabled site, then a switch to a
\* disabled one.
SpecScenario == InitDefaultSettings /\ [][NextScenario]_vars

\* Start-up alone: initializeStorage() loads the stored map and the initial
\* tabs.query resolves the active tab's URL, in either order.
SpecResolve == InitResolve /\ [][Startup]_vars

\* The tabs.onActivated listeners.
Activating ==
  \/ OnActivated
  \/ ActivationTabGot
  \/ ActivationWindowGot

\* The user activates a tab of the window that has the focus.
ActivatedByUser == focused /\ OnActivated

NextFocus ==
  \/ Startup
  \/ ActivatedByUser
  \/ ActivationTabGot
  \/ ActivationWindowGot
  \/ OnFocusLost
  \/ OnFocusGained

\* Tabs are activated in the focused window, and the window loses and gains
\* the focus: while no window has the focus, losing it was the last event.
SpecFocus == InitInstalled /\ [][NextFocus]_vars

NextActivate ==
  \/ Startup
  \/ Activating
  \/ OnMinimized
  \/ OnRestored

\* Tabs are activated, in a window that may be minimized and restored.
SpecActivate == InitInstalled /\ [][NextActivate]_vars

NextReset ==
  \/ AdvanceQuick
  \/ Tick
  \/ FlushRead
  \/ FlushWrite
  \/ FlushDone
  \/ Startup
  \/ ResetAllData

\* One session, its flushes one at a time, and the popup's reset at any
\* moment: the store is written by the flushes and the reset only.
SpecReset == InitDefaultSettings /\ [][NextReset]_vars

NextLate ==
  \/ AdvanceQuick
  \/ AdvanceLate
  \/ Tick
  \/ FlushRead
  \/ FlushWrite
  \/ FlushDone
  \/ Startup

\* One session under a timer whose callbacks may run late, the store
\* answering within one timer period.
SpecLate == InitDefaultSettings /\ [][NextLate]_vars

Next ==
  \/ Advance
  \/ Tick
  \/ Flush
  \/ Startup
  \/ Browsing
  \/ OnMessage
  \/ MessageQueryDone
  \/ PopupToggle
  \/ ResetAllData
  \/ Installing
  \/ Activating
  \/ OnMinimized
  \/ OnRestored

Spec == Init /\ [][Next]_vars


(***************************************************************************)
(* Properties.                                                             *)
(***************************************************************************)
\* The updateTime() invocations in flight.
InFlight == { flushes[i] : i \in 1..Len(flushes) }

\* C1: when startTracking switches from site A to site B, the final flush
\* of A's session adds its whole minutes to A's total and to no other
\* site's, however its storage read and write interleave with the rest.
C1_SwitchFlushCreditsOldSite ==
  \A f \in InFlight :
    (f.kind = "switch" /\ f.pc \in {"set", "threw"}) => f.wrote = f.site.hostname

\* C2: the final flush made on leaving Tracking(site), by stopTracking or by
\* a switch, is never abandoned: once resumed after its read it has written
\* its minutes.
C2_FinalFlushCompletes ==
  \A f \in InFlight :
    f.kind \in {"stop", "switch"} => f.pc # "threw"

\* C4: with a periodic flush and a final flush racing, no minute is counted
\* twice: once a final flush has written, the minutes added to the store do
\* not exceed the time a site was being tracked.
C4_NoMinuteCountedTwice ==
  (\E f \in InFlight : f.kind \in {"stop", "switch"} /\ f.pc = "set")
    => addedMinutes * MinuteMs <= trackedMs


\* C3: a tracked hostname's persisted totalMinutes never decreases from one
\* store state to the next, except by the popup's reset.
C3_TotalsNeverDecrease ==
  [][(\A h \in Hosts : Total(timeDataStore', h) >= Total(timeDataStore, h))
       \/ lastOp' = "reset"]_vars


\* The controller is Idle: no current site and no periodic timer.
Idle == currentSite = null /\ intervalId = 0 /\ timers = {}

\* C5: once an updateEnabledPlatforms message that disables the platform of
\* the foreground tab has been processed (its tabs.query callback has run),
\* the controller is Idle.
C5_DisabledPlatformStops ==
  lastOp = "message-off" => Idle


\* The hostnames with an entry in a timeData value that may be undefined.
Entries(td) == IF Defined(td) THEN DOMAIN Val(td) ELSE {}

\* A step issues an updateTime() that goes on to its storage read.
Issues(i) == i > Len(flushes) /\ i <= Len(flushes')

\* A step resumes invocation i after its read and writes the store.
Writes(i) ==
  /\ Len(flushes') = Len(flushes)
  /\ i \in 1..Len(flushes)
  /\ flushes[i].pc = "got"
  /\ flushes'[i].pc = "set"

\* C6: a flush made N = floor((now - lastUpdateTime) / 60000) >= 1 whole
\* minutes after the last one adds exactly N to the session's hostname in
\* the store it read, creating the entry when it is absent, and changes no
\* other hostname's total.
C6_FlushAddsElapsedMinutes ==
  [][\A i \in 1..MaxInFlight :
       /\ Issues(i) =>
            /\ flushes'[i].elapsedMinutes = (now - lastUpdateTime) \div MinuteMs
            /\ flushes'[i].elapsedMinutes >= 1
       /\ (Writes(i) /\ flushes[i].data = timeDataStore) =>
            LET h == flushes[i].site.hostname
            IN /\ h \in Entries(timeDataStore')
               /\ Total(timeDataStore', h)
                    = Total(timeDataStore, h) + flushes[i].elapsedMinutes
               /\ \A k \in Hosts \ {h} :
                    /\ Total(timeDataStore', k) = Total(timeDataStore, k)
                    /\ k \in Entries(timeDataStore') <=> k \in Entries(timeDataStore)
    ]_vars

\* C6 witness: two whole minutes passed without a completed flush, and the
\* flush then made read a store without timeData and wrote a total of 2.
C6_Witness ==
  \E f \in InFlight :
    /\ f.pc = "set"
    /\ f.elapsedMinutes = 2
    /\ ~Defined(f.data)
    /\ Total(timeDataStore, f.site.hostname) = 2

\* C7: with only axiom.trade enabled, after 90 seconds of tracking it under
\* the 10-second ticks its total has grown by exactly 1; once the tab is on
\* the disabled trade.padre.gg the controller is Idle, axiom.trade's total no
\* longer changes and trade.padre.gg's total has not grown.
C7_AfterVisit ==
  (trackedMs = 9 * IntervalMs /\ flushes = << >> /\ \A tm \in timers : tm.due > now)
    => Total(timeDataStore, "axiom.trade") = 1

C7_OnDisabledSite ==
  tabUrl = UrlPadre => (Idle /\ Total(timeDataStore, "trade.padre.gg") = 0)

C7_Scenario ==
  [][/\ C7_AfterVisit'
     /\ C7_OnDisabledSite'
     /\ tabUrl = UrlPadre =>
          Total(timeDataStore', "axiom.trade") = Total(timeDataStore, "axiom.trade")
    ]_vars

\* C7 witness: the 90-second visit is over, the tab has been on the disabled
\* site for two more timer periods, and axiom.trade's total is 1.
C7_Witness ==
  /\ tabUrl = UrlPadre
  /\ trackedMs = 9 * IntervalMs
  /\ now >= 11 * IntervalMs
  /\ Total(timeDataStore, "axiom.trade") = 1

\* C8: startTracking(site) with the hostname currentSite already has (both
\* none included) changes nothing: lastUpdateTime, the timer, the suspended
\* flushes and currentSite stay as they are.
C8_SameSiteIsNoOp ==
  [][lastOp' = "start-same" => UNCHANGED controllerVars]_vars

\* C8 witness: a session that has run for some time got the call again.
C8_Witness ==
  /\ lastOp = "start-same"
  /\ currentSite # null
  /\ lastUpdateTime < now
  /\ intervalId # 0

\* C9: getTrackedSite(url) returns a site if and only if the URL parses, its
\* hostname is one of TRACKED_SITES and enabledPlatforms[hostname] is true,
\* and that site is the one with the URL's hostname; for every other URL,
\* the empty and the malformed included, it returns null and does not throw.
C9_ResolvesListedAndEnabled ==
  [][queries' # queries =>
       LET hostname == ParsedHostname(tabUrl)
           parses == tabUrl # "" /\ hostname # "TypeError"
       IN /\ currentSite' # null <=>
               (parses /\ hostname \in Hosts
                  /\ hostname \in DOMAIN enabledPlatforms
                  /\ enabledPlatforms[hostname] = TRUE)
          /\ currentSite' # null =>
               (currentSite' \in Sites /\ currentSite'.hostname = hostname)
    ]_vars

\* C9 witness: a listed hostname that the defaults leave disabled resolved
\* to its site under a map that enables it.
C9_Witness ==
  /\ queries = {}
  /\ currentSite # null
  /\ currentSite.hostname = "trade.padre.gg"
  /\ ~DefaultEnabled["trade.padre.gg"]

\* A step in which a storage call of a flush rejects, or the rejected
\* invocation is dropped.
FailureStep ==
  \/ \E i \in 1..Len(flushes) :
       /\ Len(flushes') = Len(flushes)
       /\ flushes[i].pc # "failed"
       /\ flushes'[i].pc = "failed"
  \/ /\ Len(flushes') < Len(flushes)
     /\ \E i \in 1..Len(flushes) :
          flushes[i].pc = "failed" /\ flushes' = RemoveAt(flushes, i)

Completes(i) ==
  /\ i \in 1..Len(flushes)
  /\ flushes[i].pc = "set"
  /\ flushes' = RemoveAt(flushes, i)

\* C11: a flush that persisted elapsedMinutes >= 1 advances lastUpdateTime by
\* exactly elapsedMinutes * 60000 ms, so that the remainder below a minute
\* is carried into the next flush.
C11_AdvancesByWholeMinutes ==
  [][\A i \in 1..MaxInFlight + 1 :
       Completes(i) =>
         lastUpdateTime' = lastUpdateTime + flushes[i].elapsedMinutes * MinuteMs
    ]_vars


\* A step in which the interval timer's callback runs: the timer is armed
\* again and the session is the same.
TimerStep ==
  /\ timers' # timers
  /\ currentSite' = currentSite
  /\ intervalId' = intervalId

\* C12: updateTime() with no current site, or less than 60000 ms after
\* lastUpdateTime, reads and writes nothing and leaves lastUpdateTime,
\* currentSite, the timer and the stored totals as they are.
C12_NoFlushBelowAMinute ==
  [][/\ (TimerStep /\ (currentSite = null \/ now - lastUpdateTime < MinuteMs)) =>
          /\ UNCHANGED << flushes, lastUpdateTime, currentSite, intervalId,
                          timeDataStore >>
          /\ { tm.id : tm \in timers' } = { tm.id : tm \in timers }
     /\ LET c == [Ctl EXCEPT !.currentSite = null]
        IN updateTime(c, now, "tick") = c
    ]_vars

\* C12 witness: the timer's callback has just run less than a minute after
\* lastUpdateTime, in a running session.
C12_Witness ==
  /\ currentSite # null
  /\ lastUpdateTime < now
  /\ now - lastUpdateTime < MinuteMs
  /\ \E tm \in timers : tm.id = intervalId /\ tm.due = now + IntervalMs
  /\ flushes = << >>


\* No listener or callback is suspended at a tab or window query.
NoHandlerInFlight ==
  /\ queries = {}
  /\ activations = << >>
  /\ ~Defined(messageQuery)

\* C13: once the window has lost the focus and every handler in flight has
\* completed, the controller is Idle, with no timer armed, for as long as no
\* later event arrives.
C13_FocusLostStops ==
  (~focused /\ NoHandlerInFlight) => Idle


\* The enabledPlatforms map that is persisted, the built-in default when no
\* settings are.
PersistedPlatforms ==
  IF Defined(settingsStore) THEN Val(settingsStore).enabledPlatforms
  ELSE DEFAULT_SETTINGS.enabledPlatforms

\* C14: at process start the persisted map is loaded before any tracking
\* decision: the controller never has a session, the one started by the
\* initial tabs.query included, on a site whose entry in the persisted map is
\* false.
C14_NoSessionOnDisabledSite ==
  currentSite # null =>
    ~(/\ currentSite.hostname \in DOMAIN PersistedPlatforms
      /\ PersistedPlatforms[currentSite.hostname] = FALSE)


\* A step in which a run of initializeStorage() issues its write of the
\* given key ("setTimeData": line 37, "setSettings": line 43).
InitWrites(key) ==
  /\ Len(inits') = Len(inits)
  /\ \E i \in 1..Len(inits) : inits[i].pc # key /\ inits'[i].pc = key

\* C15: initializeStorage() writes its defaults only for keys that are
\* absent: a timeData or settings value that is in the store at the moment
\* of the write is kept, whatever flushes, popup writes and other runs of
\* initializeStorage() came in between.
C15_InitKeepsStoredValues ==
  [][/\ (InitWrites("setTimeData") /\ Defined(timeDataStore)) =>
          timeDataStore' = timeDataStore
     /\ (InitWrites("setSettings") /\ Defined(settingsStore)) =>
          settingsStore' = settingsStore
    ]_vars


\* The interval timer of the session is armed, and no other.
Armed == intervalId # 0 /\ { tm.id : tm \in timers } = {intervalId}

\* C16: when the tabs.query callback of an updateEnabledPlatforms message
\* has run, enabledPlatforms is the message's map and currentSite is what
\* getTrackedSite gives for the foreground tab's URL under that map: none,
\* with the controller Idle, or the site, with its timer armed.
C16_MessageReevaluatesTab ==
  [][(Defined(messageQuery) /\ ~Defined(messageQuery')) =>
       LET platforms == Val(messageQuery)
       IN /\ enabledPlatforms' = platforms
          /\ currentSite' = getTrackedSite(tabUrl, platforms)
          /\ IF currentSite' = null THEN Idle' ELSE Armed'
    ]_vars


\* A listener invocation for the tab that is the active one is in flight.
ActiveTabHandlers(acts) == { i \in 1..Len(acts) : acts[i].active }

C18_ResetIsNotUndone ==
  [][/\ lastOp' = "reset" =>
          \A h \in Hosts : Total(timeDataStore', h) = 0
     /\ \A i \in 1..MaxInFlight + 1 :
          Writes(i) =>
            Total(timeDataStore', flushes'[i].wrote)
              = Total(timeDataStore, flushes'[i].wrote) + flushes[i].elapsedMinutes
    ]_vars


\* C19: between handlers the interval timer is armed if and only if there
\* is a current site, and there is never more than one timer: it is the one
\* intervalId names.
C19_TimerIffSite ==
  /\ intervalId # 0 <=> currentSite # null
  /\ Cardinality(timers) <= 1
  /\ { tm.id : tm \in timers } = IF intervalId # 0 THEN {intervalId} ELSE {}

\* C19 witness: a session that replaced another one, with its one timer.
C19_Witness ==
  /\ lastOp = "start-switch"
  /\ currentSite # null
  /\ Cardinality(timers) = 1
  /\ \E tm \in timers : tm.id = intervalId /\ tm.due = now + IntervalMs

=============================================================================
